---------------------------- MODULE Spec2Model ----------------------------
(***************************************************************************)
(* A model of the SiEPIC-Tools KLayout extension (SiEPIC/extend.py):       *)
(*   - the pya.Path extensions is_manhattan, radius_check, unique_points   *)
(*     and snap;                                                           *)
(*   - the pya.Cell extensions find_components, identify_nets,             *)
(*     get_LumericalINTERCONNECT_analyzers and spice_netlist_export;       *)
(* and of run_INTC (lumerical/interconnect.py), which keeps the handle of  *)
(* the Lumerical INTERCONNECT session.                                     *)
(*                                                                         *)
(* Points are records [x, y] of integers (database units).  Python lists   *)
(* are sequences; Python index i is index i+1 here, and pts[-1] is         *)
(* pts[Len(pts)].                                                          *)
(***************************************************************************)
EXTENDS Integers, Sequences, FiniteSets, TLC

VARIABLES
  pts,        \* the points of the pya.Path object the path extensions act on
  ret,        \* the last call made on the path: its arguments and what it returned
  layout,     \* the top cell: what its recursive shape iterators visit
  python,     \* the major version of the Python interpreter KLayout embeds
  components, \* the components as the last call of find_components, identify_nets
              \* or get_LumericalINTERCONNECT_analyzers left them
  nets,       \* what the last call of identify_nets or
              \* get_LumericalINTERCONNECT_analyzers returned
  out,        \* what the last call of spice_netlist_export returned or raised
  LUMAPI,     \* load_lumapi.LUMAPI: whether the module holds the scripting bridge
  INTC,       \* the global INTC of interconnect.py: NoHandle or a session handle
  running,    \* the handles of the INTERCONNECT sessions that answer scripts
  opened,     \* how many sessions lumapi.open has opened so far
  in_klayout, \* whether pya was in sys.modules when interconnect.py was imported
  call        \* the last call of run_INTC: what it found and how it ended

pathVars == <<pts, ret>>

layoutVars == <<layout, python, components, nets, out>>

intcVars == <<LUMAPI, INTC, running, opened, in_klayout, call>>

vars == <<pts, ret, layout, python, components, nets, out,
          LUMAPI, INTC, running, opened, in_klayout, call>>

---------------------------------------------------------------------------
(* Bounds of the path model *)

MaxX == 2          \* path points have x in 0..MaxX
MaxY == 1          \* path points have y in 0..MaxY
MaxPts == 4        \* a path has 2..MaxPts points
MaxRadius == 2     \* radius_check is called with radius 0..MaxRadius

Pt(x, y) == [x |-> x, y |-> y]

Points == [x : 0..MaxX, y : 0..MaxY]

Paths == UNION {[1..n -> Points] : n \in 2..MaxPts}

NoCall == [op |-> "none"]

---------------------------------------------------------------------------
(* pya.Point arithmetic used by the extensions *)

\* Squared Euclidean distance; Point.distance and Vector.abs are its square root
Dist2(p, q) == (p.x - q.x) * (p.x - q.x) + (p.y - q.y) * (p.y - q.y)

\* sqrt(d2) >= r, for the float comparison "length >= radius"
LengthAtLeast(d2, r) == r <= 0 \/ d2 >= r * r

---------------------------------------------------------------------------
(* is_manhattan *)

\* check starts at 1 for a two-point path; every index i with i == 1 (the
\* second point) or pts[i] == pts[-1] adds one when the segment from
\* pts[i-1] (pts[-1] for i == 0) is horizontal or vertical; true iff check == 2.
is_manhattan(p) ==
  LET n       == Len(p)
      start   == IF n = 2 THEN 1 ELSE 0
      prev(i) == IF i = 1 THEN n ELSE i - 1
      hit(i)  == /\ (i = 2 \/ p[i] = p[n])
                 /\ (p[i].x = p[prev(i)].x \/ p[i].y = p[prev(i)].y)
      check   == start + Cardinality({i \in 1..n : hit(i)})
  IN  check = 2

---------------------------------------------------------------------------
(* radius_check *)

\* lengths[i] is the length of the segment from point i to point i+1 (squared)
SegLengths2(p) == [i \in 1..(Len(p) - 1) |-> Dist2(p[i + 1], p[i])]

radius_check_all_single(p, radius) ==
  LET lengths == SegLengths2(p)
  IN  \A i \in 1..Len(lengths) : LengthAtLeast(lengths[i], radius)

radius_check(p, radius) ==
  LET lengths == SegLengths2(p)
      m       == Len(lengths)
      check1  == LengthAtLeast(lengths[1], radius)
      check2  == LengthAtLeast(lengths[m], radius)
      check3  == \A i \in 2..(m - 1) : LengthAtLeast(lengths[i], 2 * radius)
  IN  check1 /\ check2 /\ check3

---------------------------------------------------------------------------
(* unique_points *)

RECURSIVE UniqueOf(_, _)
UniqueOf(p, output) ==
  IF p = <<>> THEN output
  ELSE UniqueOf(Tail(p),
                IF \E k \in 1..Len(output) : output[k] = Head(p)
                THEN output
                ELSE Append(output, Head(p)))

\* A variant that drops a point only when it repeats the point just before it
unique_points_consecutive(p) ==
  LET idx == {i \in 1..Len(p) : i = 1 \/ p[i] # p[i - 1]}
      Nth(k) == CHOOSE i \in idx : Cardinality({j \in idx : j <= i}) = k
  IN  [k \in 1..Cardinality(idx) |-> p[Nth(k)]]

unique_points(p) == UniqueOf(p, <<>>)

---------------------------------------------------------------------------
(* snap *)

\* Pin types (_globals.PIN_TYPES)
OPTICAL == "OPTICAL"
OPTICALIO == "OPTICALIO"
ELECTRICAL == "ELECTRICAL"
PIN_TYPES == {OPTICAL, OPTICALIO, ELECTRICAL}

\* Point - Point, a Vector
Sub(p, q) == [x |-> p.x - q.x, y |-> p.y - q.y]

\* Point + Vector
Add(p, v) == [x |-> p.x + v.x, y |-> p.y + v.y]

\* utils.angle_vector: the direction of a vector in degrees, in (-180, 180],
\* and 0 for the null vector (atan2(0, 0)).  Directions along the axes are
\* exact.  A direction off the axes is represented by the diagonal of its
\* quadrant: with coordinates below 114 in absolute value it is more than
\* half a degree away from every axis, so the two tests made of an angle,
\* round((ang - rotation) % 360) == 180 against a rotation that is a multiple
\* of 90 and round(ang % 180) == 0, come out as for the exact angle.
AngleVector(v) ==
  CASE v.y = 0 /\ v.x >= 0 -> 0
    [] v.y = 0 /\ v.x < 0  -> 180
    [] v.x = 0 /\ v.y > 0  -> 90
    [] v.x = 0 /\ v.y < 0  -> -90
    [] v.x > 0 /\ v.y > 0  -> 45
    [] v.x < 0 /\ v.y > 0  -> 135
    [] v.x < 0 /\ v.y < 0  -> -135
    [] v.x > 0 /\ v.y < 0  -> -45

\* The stable ascending sort of a sequence (Python's sorted): element i comes
\* before element j iff it is smaller, or neither is smaller and i < j.
StableSort(seq, Less(_, _)) ==
  LET Sorted(s) ==
        LET n       == Len(s)
            rank(i) == 1 + Cardinality({j \in 1..n :
                              \/ Less(s[j], s[i])
                              \/ (~Less(s[i], s[j]) /\ j < i)})
        IN  [r \in 1..n |-> s[CHOOSE i \in 1..n : rank(i) = r]]
  IN  CHOOSE r \in {Sorted(s) : s \in {seq}} : TRUE

\* round((ang - pin.rotation) % 360) == 180: the pin faces the segment
Facing(ang, pin) == ((ang - pin.rotation) % 360) = 180

SnapCandidatesAnyType(pins, ang) ==
  SelectSeq(pins, LAMBDA pin : Facing(ang, pin))

\* [pin for pin in pins if round((ang - pin.rotation)%360) == 180
\*                       and pin.type == PIN_TYPES.OPTICAL]
SnapCandidates(pins, ang) ==
  SelectSeq(pins, LAMBDA pin : Facing(ang, pin) /\ pin.type = OPTICAL)

\* sorted(..., key=lambda x: x.center.distance(pt))
pins_sorted(pins, ang, pt) ==
  StableSort(SnapCandidates(pins, ang),
             LAMBDA a, b : Dist2(a.center, pt) < Dist2(b.center, pt))

\* dpt.abs() <= d_min
WithinDist(dpt, d_min) == dpt.x * dpt.x + dpt.y * dpt.y <= d_min * d_min

\* One end of the path: e is the index of the endpoint, c the index of the
\* corner next to it.  The endpoint moves onto the closest candidate pin when
\* that pin is within d_min; the corner keeps the end segment's orientation.
SnapEnd(p, e, c, pins, d_min) ==
  LET ang == AngleVector(Sub(p[c], p[e]))
      ps  == pins_sorted(pins, ang, p[e])
  IN  IF Len(ps) = 0 THEN p
      ELSE LET dpt == Sub(ps[1].center, p[e])
           IN  IF ~WithinDist(dpt, d_min) THEN p
               ELSE LET q == [p EXCEPT ![e] = Add(p[e], dpt)]
                    IN  IF (ang % 180) = 0
                        THEN [q EXCEPT ![c].y = @ + dpt.y]
                        ELSE [q EXCEPT ![c].x = @ + dpt.x]

\* pya.Path.length() of a path without extensions is positive iff two of
\* its consecutive points differ
PathLengthPositive(p) == \E i \in 1..(Len(p) - 1) : p[i] # p[i + 1]

\* snap(pins): [mid: the points after the first end, fin: after the second
\* end, points: the path's points when snap returns]
snap(p, pins, d_min) ==
  IF Len(pins) = 0 THEN [mid |-> p, fin |-> p, points |-> p]
  ELSE LET n   == Len(p)
           mid == SnapEnd(p, 1, 2, pins, d_min)
           fin == SnapEnd(mid, n, n - 1, pins, d_min)
       IN  [mid |-> mid, fin |-> fin,
            points |-> IF PathLengthPositive(fin) THEN fin ELSE p]

---------------------------------------------------------------------------
(* The path object: construction and calls *)

\* No layout is open while the path extensions are exercised
\* The simulator bridge as it is while no call of run_INTC is made
NoHandle == 0

NoSimulator ==
  /\ LUMAPI = FALSE
  /\ INTC = NoHandle
  /\ running = {}
  /\ opened = 0
  /\ in_klayout = TRUE
  /\ call = NoCall

NoLayout ==
  /\ layout = [shapes |-> <<>>, lum |-> <<>>]
  /\ python = 3
  /\ components = NoCall
  /\ nets = NoCall
  /\ out = NoCall

InitPath ==
  /\ pts \in Paths
  /\ ret = NoCall
  /\ NoLayout
  /\ NoSimulator

IsManhattan ==
  /\ Len(pts) >= 2
  /\ ret' = [op |-> "is_manhattan", on |-> pts, val |-> is_manhattan(pts)]
  /\ UNCHANGED <<pts, layoutVars, intcVars>>

RadiusCheck ==
  /\ Len(pts) >= 2
  /\ \E radius \in 0..MaxRadius :
       ret' = [op |-> "radius_check", on |-> pts, radius |-> radius,
               val |-> radius_check(pts, radius)]
  /\ UNCHANGED <<pts, layoutVars, intcVars>>

UniquePoints ==
  /\ pts' = unique_points(pts)
  /\ ret' = [op |-> "unique_points", on |-> pts]
  /\ UNCHANGED <<layoutVars, intcVars>>

NextPath == IsManhattan \/ RadiusCheck \/ UniquePoints

SpecPath == InitPath /\ [][NextPath]_vars

---------------------------------------------------------------------------
(* Snapping a path to the pins of a layout *)

SnapMaxPts == 3    \* a snapped path has 2..SnapMaxPts points
MaxSnapDist == 2   \* PATH_SNAP_PIN_MAXDIST / dbu is in 0..MaxSnapDist

\* Pin rotations: angle_vector of an axis-parallel pin path
PinRotations == {0, 90, 180, -90}

\* The layout the path is snapped in: its points have coordinates in SnapCoords
SnapCoords == {0, 1}

SnapPoints == [x : SnapCoords, y : SnapCoords]

\* Optical pins point in any of the four directions; the rotation of an
\* electrical or optical IO pin is 0
SnapPinSet ==
  [type : {OPTICAL}, center : SnapPoints, rotation : PinRotations]
    \cup [type : {ELECTRICAL, OPTICALIO}, center : SnapPoints, rotation : {0}]

SnapPinLists == UNION {[1..n -> SnapPinSet] : n \in {0, 1, 2}}

SnapPaths == UNION {[1..n -> SnapPoints] : n \in 2..SnapMaxPts}

InitSnap ==
  /\ pts \in SnapPaths
  /\ ret = NoCall
  /\ NoLayout
  /\ NoSimulator

\* path.snap(pins), called on a path that was just drawn (every path a later
\* call could start from is one of the initial paths)
Snap ==
  /\ ret = NoCall
  /\ \E pins \in SnapPinLists, d_min \in 0..MaxSnapDist :
       LET r == snap(pts, pins, d_min)
       IN  /\ pts' = r.points
           /\ ret' = [op |-> "snap", on |-> pts, pins |-> pins, d_min |-> d_min,
                      mid |-> r.mid, fin |-> r.fin]
  /\ UNCHANGED <<layoutVars, intcVars>>

NextSnap == Snap

SpecSnap == InitSnap /\ [][NextSnap]_vars

---------------------------------------------------------------------------
(* Strings.  A Python str is the sequence of the code points of its
   characters; str comparison is lexicographic. *)

StrLess(a, b) ==
  \E k \in 1..(Len(a) + 1) :
    /\ k <= Len(b)
    /\ \A j \in 1..(k - 1) : a[j] = b[j]
    /\ (k = Len(a) + 1 \/ a[k] < b[k])

\* str.replace(' ', '_')
ReplaceSpace(str) == [i \in 1..Len(str) |-> IF str[i] = 32 THEN 95 ELSE str[i]]

\* str(n) of a natural number
RECURSIVE Str(_)
Str(n) == IF n < 10 THEN <<48 + n>> ELSE Str(n \div 10) \o <<48 + (n % 10)>>

s_opt1 == <<111, 112, 116, 49>>                              \* "opt1"
s_opt2 == <<111, 112, 116, 50>>                              \* "opt2"
s_elec1 == <<101, 108, 101, 99, 49>>                         \* "elec1"
s_wg == <<119, 103>>                                         \* "wg"
s_GC_1 == <<71, 67, 32, 49>>                                 \* "GC 1"
s_heater == <<104, 101, 97, 116, 101, 114>>                  \* "heater"
s_stub == <<115, 116, 117, 98>>                              \* "stub"
s_Flattened == <<70, 108, 97, 116, 116, 101, 110, 101, 100>> \* "Flattened"
s_detector == <<95, 100, 101, 116, 101, 99, 116, 111, 114>>  \* "_detector"
s_laser == <<95, 108, 97, 115, 101, 114>>                    \* "_laser"

---------------------------------------------------------------------------
(* Transformations and boxes (pya.ICplxTrans, pya.Box) *)

\* A vector turned counter-clockwise by a multiple of 90 degrees
Rotated(v, angle) ==
  CASE angle = 0   -> v
    [] angle = 90  -> [x |-> -v.y, y |-> v.x]
    [] angle = 180 -> [x |-> -v.x, y |-> -v.y]
    [] angle = 270 -> [x |-> v.y, y |-> -v.x]

\* A transformation mirrors at the x axis first, then rotates
TransVec(t, v) ==
  Rotated(IF t.mirror THEN [x |-> v.x, y |-> -v.y] ELSE v, t.angle)

\* ... and then displaces
TransPoint(t, p) == Add(TransVec(t, p), t.disp)

Min2(a, b) == IF a <= b THEN a ELSE b

Max2(a, b) == IF a >= b THEN a ELSE b

\* box.transformed(trans): the box of the two transformed corners
TransBox(t, b) ==
  LET c1 == TransPoint(t, b.p1)
      c2 == TransPoint(t, b.p2)
  IN  [p1 |-> [x |-> Min2(c1.x, c2.x), y |-> Min2(c1.y, c2.y)],
       p2 |-> [x |-> Max2(c1.x, c2.x), y |-> Max2(c1.y, c2.y)]]

\* Box.overlaps: the boxes share an area
BoxOverlaps(a, b) ==
  /\ a.p1.x < b.p2.x /\ b.p1.x < a.p2.x
  /\ a.p1.y < b.p2.y /\ b.p1.y < a.p2.y

\* Box.touches: the boxes share at least a point
BoxTouches(a, b) ==
  /\ a.p1.x <= b.p2.x /\ b.p1.x <= a.p2.x
  /\ a.p1.y <= b.p2.y /\ b.p1.y <= a.p2.y

\* Box.contains(point), borders included
BoxContains(b, p) ==
  /\ b.p1.x <= p.x /\ p.x <= b.p2.x
  /\ b.p1.y <= p.y /\ p.y <= b.p2.y

\* Box.center()
BoxCenter(b) == [x |-> (b.p1.x + b.p2.x) \div 2, y |-> (b.p1.y + b.p2.y) \div 2]

---------------------------------------------------------------------------
(* Pins (core.Pin) *)

NET_DISCONNECTED == [k |-> "disconnected"]

NullVec == [x |-> 0, y |-> 0]

\* Pin(path=..., _type=OPTICAL, pin_name=...): the centre of the two-point
\* pin path and the direction of its vector dir; Pin(box=...) of an
\* electrical pin and the pin of a fibre target have rotation 0.
Pin(type, pin_name, center, dir) ==
  [type |-> type, pin_name |-> pin_name, center |-> center, dir |-> dir,
   rotation |-> IF type = OPTICAL THEN AngleVector(dir) ELSE 0,
   component |-> -1, net |-> NET_DISCONNECTED]

\* Pin.transform(trans): the pin's shape is transformed, its centre and
\* rotation are taken from the transformed shape
PinTransform(p, t) ==
  LET dir == TransVec(t, p.dir)
  IN  [p EXCEPT !.center = TransPoint(t, p.center),
                !.dir = dir,
                !.rotation = IF p.type = OPTICAL THEN AngleVector(dir) ELSE 0]

---------------------------------------------------------------------------
(* find_pins, find_pins_component, find_components *)

\* Cell.find_pins: the pins of the PinRec paths (optical) and boxes
\* (electrical) in the order the shapes are visited, and then one optical IO
\* pin for each FbrTgt polygon, named after the cell
find_pins(cell) ==
  [i \in 1..Len(cell.pinrec) |->
     Pin(IF cell.pinrec[i].kind = "path" THEN OPTICAL ELSE ELECTRICAL,
         cell.pinrec[i].name, cell.pinrec[i].center, cell.pinrec[i].dir)]
  \o
  [i \in 1..Len(cell.fbrtgt) |->
     Pin(OPTICALIO, ReplaceSpace(cell.basic_name), cell.fbrtgt[i], NullVec)]

find_pins_component(cell, component) ==
  LET pins == find_pins(cell)
  IN  [i \in 1..Len(pins) |-> [pins[i] EXCEPT !.component = component]]

\* Component.Dcenter: the centre of the component's outline, in microns
Dcenter(polygon) == BoxCenter(polygon)

ComponentPinsUnsorted(shape, idx) ==
  LET pins == find_pins_component(shape.cell, idx)
  IN  [i \in 1..Len(pins) |-> PinTransform(pins[i], shape.trans)]

\* pins = sorted(subcell.find_pins_component(components[-1]), key=pin_name);
\* [p.transform(iter1.trans()) for p in pins]
ComponentPins(shape, idx) ==
  LET pins == StableSort(find_pins_component(shape.cell, idx),
                         LAMBDA p, q : StrLess(p.pin_name, q.pin_name))
  IN  [i \in 1..Len(pins) |-> PinTransform(pins[i], shape.trans)]

\* The component of one DevRec box or polygon.  The outline polygon is kept
\* as its bounding box.  A DevRec shape of the top cell itself is a
\* flattened component, which has no pins.
ComponentOf(shape, idx) ==
  LET polygon == TransBox(shape.trans, shape.box)
  IN  IF shape.flat
      THEN [idx |-> idx, component |-> s_Flattened, basic_name |-> s_Flattened,
            cell |-> "None", flat |-> TRUE, trans |-> shape.trans, library |-> "None",
            polygon |-> polygon, Dcenter |-> Dcenter(polygon), pins |-> <<>>]
      ELSE [idx |-> idx, component |-> ReplaceSpace(shape.cell.basic_name),
            basic_name |-> shape.cell.basic_name, cell |-> shape.cell,
            flat |-> FALSE, trans |-> shape.trans,
            library |-> shape.cell.library,
            polygon |-> polygon, Dcenter |-> Dcenter(polygon),
            pins |-> ComponentPins(shape, idx)]

\* The loop over the DevRec shapes: idx = len(components); a shape that is
\* neither a box nor a polygon (a text label) is no component
RECURSIVE FindComponentsLoop(_, _)
FindComponentsLoop(shapes, comps) ==
  IF shapes = <<>> THEN comps
  ELSE LET shape == Head(shapes)
           idx   == Len(comps)
       IN  FindComponentsLoop(Tail(shapes),
             IF shape.kind \in {"box", "polygon"}
             THEN Append(comps, ComponentOf(shape, idx))
             ELSE comps)

find_components(cell) == FindComponentsLoop(cell.shapes, <<>>)

---------------------------------------------------------------------------
(* identify_nets *)

BBoxesOverlapOnly(c1, c2) == BoxOverlaps(c1.polygon, c2.polygon)

\* if c1.polygon.bbox().overlaps(...) or c1.polygon.bbox().touches(...)
BBoxesMeet(c1, c2) ==
  BoxOverlaps(c1.polygon, c2.polygon) \/ BoxTouches(c1.polygon, c2.polygon)

\* check1 and check2
PinsConnect(p1, p2) ==
  /\ ((p1.rotation - p2.rotation) % 360) = 180
  /\ p1.center = p2.center

\* The places in the pin lists of the components
PinSlots(comps) == UNION {1..Len(comps[i].pins) : i \in 1..Len(comps)}

\* The (c1, c2, p1, p2) for which the loops add a net, as positions
NetMatches(comps) ==
  {t \in (1..Len(comps)) \X (1..Len(comps)) \X PinSlots(comps) \X PinSlots(comps) :
     /\ t[2] >= comps[t[1]].idx + 2
     /\ BBoxesMeet(comps[t[1]], comps[t[2]])
     /\ t[3] <= Len(comps[t[1]].pins)
     /\ t[4] <= Len(comps[t[2]].pins)
     /\ PinsConnect(comps[t[1]].pins[t[3]], comps[t[2]].pins[t[4]])}

\* The order in which the nested loops reach them
LoopBefore(t, u) ==
  \E k \in 1..4 : (\A j \in 1..(k - 1) : t[j] = u[j]) /\ t[k] < u[k]

\* The matches in the order the loops reach them
RECURSIVE InLoopOrder(_)
InLoopOrder(M) ==
  IF M = {} THEN <<>>
  ELSE LET t == CHOOSE t \in M : \A u \in M : ~LoopBefore(u, t)
       IN  <<t>> \o InLoopOrder(M \ {t})

\* nets: net k connects [p1, p2]; a pin is named by the idx of its
\* component and its place in the component's pin list
NetsOf(comps) ==
  LET order == InLoopOrder(NetMatches(comps))
  IN  [k \in 1..Len(order) |->
         [idx |-> k - 1,
          pins |-> <<[c |-> comps[order[k][1]].idx, p |-> order[k][3]],
                     [c |-> comps[order[k][2]].idx, p |-> order[k][4]]>>]]

\* p1.net = nets[-1]; p2.net = nets[-1]: a pin keeps the last net made for it
WithNets(comps, ns) ==
  [i \in 1..Len(comps) |->
     [comps[i] EXCEPT !.pins =
        [a \in 1..Len(comps[i].pins) |->
           LET mine == {k \in 1..Len(ns) :
                          \E e \in 1..2 : ns[k].pins[e] = [c |-> comps[i].idx, p |-> a]}
           IN  IF mine = {} THEN comps[i].pins[a]
               ELSE [comps[i].pins[a] EXCEPT !.net =
                       [k |-> "net",
                        idx |-> ns[CHOOSE k \in mine : \A m \in mine : m <= k].idx]]]]]

\* nets, components = identify_nets()
identify_nets(cell) ==
  LET Connected(comps) ==
        CHOOSE r \in {[nets |-> ns, components |-> WithNets(comps, ns)] :
                        ns \in {NetsOf(comps)}} : TRUE
  IN  CHOOSE r \in {Connected(comps) : comps \in {find_components(cell)}} : TRUE

---------------------------------------------------------------------------
(* Layouts for the extraction of components and nets *)

MaxShapes == 2     \* the DevRec iterator visits 1..MaxShapes shapes

P(x, y) == [x |-> x, y |-> y]

PathPin(name, center, dir) ==
  [kind |-> "path", name |-> name, center |-> center, dir |-> dir]

BoxPin(name, center) ==
  [kind |-> "box", name |-> name, center |-> center, dir |-> NullVec]

\* A straight waveguide: optical pins on its left and right edges, the
\* right one drawn first
CellWg ==
  [basic_name |-> s_wg, library |-> "Design kits/ebeam",
   box |-> [p1 |-> P(0, 0), p2 |-> P(4, 2)],
   pinrec |-> <<PathPin(s_opt2, P(4, 1), P(1, 0)), PathPin(s_opt1, P(0, 1), P(-1, 0))>>,
   fbrtgt |-> <<>>]

\* A grating coupler: an optical pin on its right edge and a fibre target
CellGC ==
  [basic_name |-> s_GC_1, library |-> "Design kits/ebeam",
   box |-> [p1 |-> P(0, 0), p2 |-> P(4, 2)],
   pinrec |-> <<PathPin(s_opt1, P(4, 1), P(1, 0))>>,
   fbrtgt |-> <<P(0, 1)>>]

\* A heater: an optical pin on the left edge, an electrical one on the right
CellHeater ==
  [basic_name |-> s_heater, library |-> "None",
   box |-> [p1 |-> P(0, 0), p2 |-> P(4, 2)],
   pinrec |-> <<PathPin(s_opt1, P(0, 1), P(-1, 0)), BoxPin(s_elec1, P(4, 1))>>,
   fbrtgt |-> <<>>]

\* A cell whose DevRec box does not reach its pin
CellStub ==
  [basic_name |-> s_stub, library |-> "None",
   box |-> [p1 |-> P(0, 0), p2 |-> P(2, 2)],
   pinrec |-> <<PathPin(s_opt1, P(4, 1), P(1, 0))>>,
   fbrtgt |-> <<>>]

NetCells == {CellWg, CellGC, CellHeater, CellStub}

Angles == {0, 90, 180, 270}

Trans(angle, mirror, disp) == [angle |-> angle, mirror |-> mirror, disp |-> disp]

Identity == Trans(0, FALSE, P(0, 0))

\* Where the instances are placed: at the origin, abutting it on the right
\* in three orientations, on top of it, and standing up beside it
NetTrans ==
  {Identity, Trans(0, FALSE, P(4, 0)), Trans(180, FALSE, P(8, 2)),
   Trans(0, TRUE, P(4, 2)), Trans(180, TRUE, P(4, 0)),
   Trans(90, FALSE, P(6, 0)), Trans(270, FALSE, P(4, 4))}

\* What the DevRec iterator visits: the DevRec box of an instance of a
\* library cell, a DevRec polygon, a DevRec box drawn in the top cell itself
\* (a flattened component), or a text label on the DevRec layer
NetShapes ==
  {[kind |-> "box", flat |-> FALSE, cell |-> c, box |-> c.box, trans |-> t] :
      c \in NetCells, t \in NetTrans}
  \cup {[kind |-> "polygon", flat |-> FALSE, cell |-> CellWg, box |-> CellWg.box,
         trans |-> Identity],
        [kind |-> "box", flat |-> TRUE, cell |-> CellWg, box |-> CellWg.box,
         trans |-> Identity],
        [kind |-> "text", flat |-> FALSE, cell |-> CellWg, box |-> CellWg.box,
         trans |-> Identity]}

NetLayouts ==
  UNION {[shapes : [1..n -> NetShapes], lum : {<<>>}] : n \in 1..MaxShapes}

InitNets ==
  /\ layout \in NetLayouts
  /\ python = 3
  /\ components = NoCall
  /\ nets = NoCall
  /\ out = NoCall
  /\ pts = <<>>
  /\ ret = NoCall
  /\ NoSimulator

\* cell.find_components()
FindComponents ==
  /\ components.op = "none"
  /\ components' = [op |-> "find_components", val |-> find_components(layout)]
  /\ UNCHANGED <<layout, python, nets, out, pathVars, intcVars>>

\* cell.identify_nets()
IdentifyNets ==
  /\ nets.op = "none"
  /\ LET r == identify_nets(layout)
     IN  /\ nets' = [op |-> "identify_nets", val |-> r.nets]
         /\ components' = [op |-> "identify_nets", val |-> r.components]
  /\ UNCHANGED <<layout, python, out, pathVars, intcVars>>

NextNets == FindComponents \/ IdentifyNets

SpecNets == InitNets /\ [][NextNets]_vars

---------------------------------------------------------------------------
(* get_LumericalINTERCONNECT_analyzers *)

None == [k |-> "None"]

\* Net(idx=..., pins=...)
Net(idx) == [k |-> "net", idx |-> idx]

LumericalDetector == "Lumerical INTERCONNECT Detector"
LumericalLaser == "Lumerical INTERCONNECT Laser"

\* [c for c in components if any([box.contains(p.center) for p in c.pins
\*                                if p.type == PIN_TYPES.OPTICALIO])],
\* as the places of these components in the list
components_IO(comps, box) ==
  SelectSeq([i \in 1..Len(comps) |-> i],
            LAMBDA i : \E a \in 1..Len(comps[i].pins) :
                         /\ comps[i].pins[a].type = OPTICALIO
                         /\ BoxContains(box, comps[i].pins[a].center))

\* p = [p for p in components_IO[0].pins if p.type == OPTICALIO]: the place
\* of p[0] in the component's pin list
FirstIOPin(c) ==
  CHOOSE a \in 1..Len(c.pins) :
    /\ c.pins[a].type = OPTICALIO
    /\ \A b \in 1..(a - 1) : c.pins[b].type # OPTICALIO

\* p[0].pin_name += suffix + str(n_IO)
AnalyzerPinName(c, suffix, n_IO) ==
  c.pins[FirstIOPin(c)].pin_name \o suffix \o Str(n_IO)

\* p[0].pin_name += ...; p[0].net = Net(idx=p[0].pin_name, pins=p)
ConnectAnalyzer(comps, i, suffix, n_IO) ==
  LET a    == FirstIOPin(comps[i])
      name == AnalyzerPinName(comps[i], suffix, n_IO)
  IN  [comps EXCEPT ![i] = [@ EXCEPT !.pins = [@ EXCEPT ![a] =
         [@ EXCEPT !.pin_name = name, !.net = Net(name)]]]]

\* The locals before the loop over the Lumerical shapes
AnalyzerStart(comps) ==
  [n_IO |-> 0, laser_net |-> None, wavelength_start |-> 0, wavelength_stop |-> 0,
   wavelength_points |-> 0, orthogonal_identifier |-> 0, ignoreOpticalIOs |-> FALSE,
   detectors_info |-> <<>>, components |-> comps, raised |-> FALSE]

\* A box of a "Lumerical INTERCONNECT Detector" cell
DetectorStep(st, shape) ==
  LET n_IO == st.n_IO + 1
      cio  == components_IO(st.components, shape.box)
      seen == [st EXCEPT !.n_IO = n_IO]
  IN  IF Len(cio) > 1 THEN [seen EXCEPT !.raised = TRUE]
      ELSE IF Len(cio) = 0 THEN seen
      ELSE [seen EXCEPT
              !.components = ConnectAnalyzer(st.components, cio[1], s_detector, n_IO),
              !.detectors_info = Append(@,
                 [detector_net |-> Net(AnalyzerPinName(st.components[cio[1]],
                                                       s_detector, n_IO)),
                  detector_number |-> shape.params.number])]

\* A box of a "Lumerical INTERCONNECT Laser" cell
LaserStep(st, shape) ==
  LET n_IO == st.n_IO + 1
      cio  == components_IO(st.components, shape.box)
      seen == [st EXCEPT !.n_IO = n_IO,
                         !.wavelength_start = shape.params.wavelength_start,
                         !.wavelength_stop = shape.params.wavelength_stop,
                         !.wavelength_points = shape.params.npoints,
                         !.orthogonal_identifier = shape.params.orthogonal_identifier,
                         !.ignoreOpticalIOs = shape.params.ignoreOpticalIOs]
  IN  IF Len(cio) > 1 THEN [seen EXCEPT !.raised = TRUE]
      ELSE IF Len(cio) = 0 THEN seen
      ELSE [seen EXCEPT
              !.components = ConnectAnalyzer(st.components, cio[1], s_laser, n_IO),
              !.laser_net = Net(AnalyzerPinName(st.components[cio[1]], s_laser, n_IO))]

\* while not(iter1.at_end()): an exception ends the call
RECURSIVE AnalyzerLoop(_, _)
AnalyzerLoop(shapes, st) ==
  IF shapes = <<>> \/ st.raised THEN st
  ELSE LET shape == Head(shapes)
       IN  AnalyzerLoop(Tail(shapes),
             IF ~shape.is_box THEN st
             ELSE IF shape.basic_name = LumericalDetector THEN DetectorStep(st, shape)
             ELSE IF shape.basic_name = LumericalLaser THEN LaserStep(st, shape)
             ELSE st)

DetectorsAsVisited(detectors_info) == detectors_info

\* detectors_info2 = sorted(detectors_info, key=lambda d: d.detector_number)
SortDetectors(detectors_info) ==
  StableSort(detectors_info,
             LAMBDA d, e : d.detector_number < e.detector_number)

get_LumericalINTERCONNECT_analyzers(cell, comps) ==
  LET Returned(st) ==
        LET detectors_info2 == SortDetectors(st.detectors_info)
        IN  [raised |-> st.raised,
             laser_net |-> st.laser_net,
             detector_nets |-> [i \in 1..Len(detectors_info2) |->
                                  detectors_info2[i].detector_net],
             wavelength_start |-> st.wavelength_start,
             wavelength_stop |-> st.wavelength_stop,
             wavelength_points |-> st.wavelength_points,
             orthogonal_identifier |-> st.orthogonal_identifier,
             ignoreOpticalIOs |-> st.ignoreOpticalIOs,
             components |-> st.components]
  IN  CHOOSE r \in {Returned(st) : st \in {AnalyzerLoop(cell.lum, AnalyzerStart(comps))}} : TRUE

---------------------------------------------------------------------------
(* spice_netlist_export *)

\* KLayoutInterconnectRotFlip: from KLayout's (rotation, mirror) to
\* INTERCONNECT's [rotation, flip]
KLayoutInterconnectRotFlip ==
  [k \in Angles \X BOOLEAN |->
     CASE k = <<0, FALSE>>   -> <<0, FALSE>>
       [] k = <<90, FALSE>>  -> <<270, FALSE>>
       [] k = <<180, FALSE>> -> <<180, FALSE>>
       [] k = <<270, FALSE>> -> <<90, FALSE>>
       [] k = <<0, TRUE>>    -> <<180, TRUE>>
       [] k = <<90, TRUE>>   -> <<90, TRUE>>
       [] k = <<180, TRUE>>  -> <<0, TRUE>>
       [] k = <<270, TRUE>>  -> <<270, FALSE>>]

Abs(n) == IF n < 0 THEN -n ELSE n

\* (sch_positions[j] - sch_positions[k]).abs().  The centres are in microns;
\* in the layouts considered their distances are whole numbers.
WholeDistance(p, q) ==
  LET dx == Abs(p.x - q.x)
      dy == Abs(p.y - q.y)
  IN  dx = 0 \/ dy = 0 \/ \E d \in Max2(dx, dy)..(dx + dy) : d * d = dx * dx + dy * dy

Distance(p, q) ==
  LET dx == Abs(p.x - q.x)
      dy == Abs(p.y - q.y)
  IN  IF dy = 0 THEN dx
      ELSE IF dx = 0 THEN dy
      ELSE CHOOSE d \in Max2(dx, dy)..(dx + dy) : d * d = dx * dx + dy * dy

\* for j in range(n): for k in range(j+1, n): the pairs in loop order
RECURSIVE PairsFrom(_, _, _)
PairsFrom(j, k, n) ==
  IF j > n THEN <<>>
  ELSE IF k > n THEN PairsFrom(j + 1, j + 2, n)
  ELSE <<<<j, k>>>> \o PairsFrom(j, k + 1, n)

FirstDistance == 1000000    \* sch_distances = [1e6]
NearestScale == 6           \* 0.0006, in units of 1e-4
MAX_size == 500             \* 0.05, in units of 1e-4

\* sch_distances after the loops, the sort and the removal of the zeros
sch_distances(comps) ==
  LET pairs == PairsFrom(1, 2, Len(comps))
      all   == <<FirstDistance>> \o
               [i \in 1..Len(pairs) |->
                  Distance(comps[pairs[i][1]].Dcenter, comps[pairs[i][2]].Dcenter)]
  IN  SelectSeq(StableSort(all, LAMBDA a, b : a < b), LAMBDA d : d # 0)

\* min(sch_distances), max(sch_distances)
SeqMin(s) == CHOOSE m \in {s[i] : i \in 1..Len(s)} : \A i \in 1..Len(s) : m <= s[i]

SeqMax(s) == CHOOSE m \in {s[i] : i \in 1..Len(s)} : \A i \in 1..Len(s) : m >= s[i]

\* Lumerical_schematic_scaling, as the fraction (n * 1e-4) / d:
\* 0.0006 / min(sch_distances), or MAX_size / max(sch_distances) if
\* max(sch_distances) * 0.0006 / min(sch_distances) > MAX_size
ScalingOf(dists) ==
  LET dmin == SeqMin(dists)
      dmax == SeqMax(dists)
  IN  IF dmax * NearestScale > MAX_size * dmin
      THEN [n |-> MAX_size, d |-> dmax]
      ELSE [n |-> NearestScale, d |-> dmin]

Lumerical_schematic_scaling(comps) ==
  CHOOSE s \in {ScalingOf(dists) : dists \in {sch_distances(comps)}} : TRUE

s_sch_r == <<32, 115, 99, 104, 95, 114, 61>>                           \* " sch_r="
s_sch_f_true == <<32, 115, 99, 104, 95, 102, 61, 116, 114, 117, 101>>  \* " sch_f=true"

PinsOfType(c, type) == SelectSeq(c.pins, LAMBDA p : p.type = type)

\* The net names.  " " + c.component + '_' + str(c.idx) + '_' + p.pin_name
\* of an electrical pin, " " + str(p.net.idx) of an optical IO pin and
\* " N$" + str(p.net.idx) of an optical pin are kept as their parts.
ElectricalNetName(c, p) ==
  [kind |-> " ", component |-> c.component, idx |-> Str(c.idx), pin_name |-> p.pin_name]

OpticalIONetName(p) == [kind |-> " ", net |-> p.net]

OpticalNetName(p) == [kind |-> " N$", net |-> p.net]

NetName(c, p) ==
  CASE p.type = ELECTRICAL -> ElectricalNetName(c, p)
    [] p.type = OPTICALIO  -> OpticalIONetName(p)
    [] p.type = OPTICAL    -> OpticalNetName(p)

NetsStrInPinOrder(c) == [a \in 1..Len(c.pins) |-> NetName(c, c.pins[a])]

\* nets_str: the electrical pins, then the optical IO pins, then the
\* optical pins, each group in a loop over c.pins
NetsStr(c) ==
  LET Names(type) ==
        LET ps == PinsOfType(c, type)
        IN  [a \in 1..Len(ps) |-> NetName(c, ps[a])]
  IN  Names(ELECTRICAL) \o Names(OPTICALIO) \o Names(OPTICAL)

RotateFieldAlways(trans) == s_sch_r \o Str(trans[1])

\* rotate = ' sch_r=%s' % str(trans[0]) if trans[0] > 0 else ''
RotateField(trans) == IF trans[1] > 0 THEN s_sch_r \o Str(trans[1]) ELSE <<>>

\* flip = ' sch_f=true' if trans[1] else ''
FlipField(trans) == IF trans[2] THEN s_sch_f_true ELSE <<>>

\* pinIOtype = any([p for p in c.pins if p.type == OPTICALIO])
pinIOtype(c) == \E a \in 1..Len(c.pins) : c.pins[a].type = OPTICALIO

\* The line of text_subckt for one component.  The cells considered carry
\* no Spice_param label (c.params is empty); x and y are written by eng_str.
ComponentLine(c, scaling) ==
  LET trans == KLayoutInterconnectRotFlip[<<c.trans.angle, c.trans.mirror>>]
  IN  [name |-> ReplaceSpace(c.component) \o <<95>> \o Str(c.idx),
       nets_str |-> NetsStr(c),
       component |-> ReplaceSpace(c.component),
       library |-> c.library,
       lay_x |-> c.Dcenter.x, lay_y |-> c.Dcenter.y,
       sch_x |-> [n |-> c.Dcenter.x * scaling.n, d |-> scaling.d],
       sch_y |-> [n |-> c.Dcenter.y * scaling.n, d |-> scaling.d],
       rotate |-> RotateField(trans),
       flip |-> FlipField(trans)]

\* The (component, pin) of the pins of one type, in the order of the loops
\* "for c in components: for p in c.pins"
RECURSIVE PinsInOrder(_, _)
PinsInOrder(comps, type) ==
  IF comps = <<>> THEN <<>>
  ELSE LET c  == Head(comps)
           ps == PinsOfType(c, type)
       IN  [a \in 1..Len(ps) |-> [c |-> c, p |-> ps[a]]] \o PinsInOrder(Tail(comps), type)

\* electricalIO_pins
electricalIO_pins(comps) ==
  LET ps == PinsInOrder(comps, ELECTRICAL)
  IN  [i \in 1..Len(ps) |-> ElectricalNetName(ps[i].c, ps[i].p)]

\* DCsources: one source per electrical pin (N1, N2, ...), or, when there are
\* five electrical pins or more (Vn > 5), the single line written last
DCsources(comps) ==
  LET names == electricalIO_pins(comps)
      Vn    == 1 + Len(names)
  IN  IF Vn > 5
      THEN <<[N |-> 1, net |-> names[Len(names)]]>>
      ELSE [i \in 1..Len(names) |-> [N |-> i, net |-> names[i]]]

\* opticalIO_pins, after the analyzers have renamed the pins
opticalIO_pins(comps) ==
  LET ps == PinsInOrder(comps, OPTICALIO)
  IN  [i \in 1..Len(ps) |-> ps[i].p.pin_name]

\* The block of text_main written "if laser_net:"
OnaBlock(name, an) ==
  IF an.laser_net = None THEN None
  ELSE [k |-> ".ona",
        orthogonal_identifier |-> an.orthogonal_identifier,
        start |-> an.wavelength_start,
        stop |-> an.wavelength_stop,
        number_of_points |-> an.wavelength_points,
        input |-> [i \in 1..Len(an.detector_nets) |->
                     [i |-> i, name |-> name, net |-> an.detector_nets[i].idx]],
        output |-> [name |-> name, net |-> an.laser_net.idx]]

\* component1 = o.component: o is the variable of the list comprehension of
\* sch_positions.  Python 2 leaves it bound to the last component; in
\* Python 3 it is not defined here and the line raises NameError.
ReachesUndefinedName(c, an, py) ==
  py = 3 /\ ~(an.ignoreOpticalIOs /\ pinIOtype(c))

\* What the call has written and returned, after the analyzers
ExportWith(cell, py, scaling, comps0, an) ==
  IF an.raised
  THEN [op |-> "spice_netlist_export", status |-> "Exception",
        scaling |-> scaling, components |-> an.components]
  ELSE IF \E i \in 1..Len(an.components) : ReachesUndefinedName(an.components[i], an, py)
  THEN [op |-> "spice_netlist_export", status |-> "NameError",
        scaling |-> scaling, components |-> an.components]
  ELSE [op |-> "spice_netlist_export", status |-> "returned",
        scaling |-> scaling, components |-> an.components,
        text_subckt |->
          [name |-> cell.name,
           electricalIO_pins |-> electricalIO_pins(comps0),
           opticalIO_pins |-> opticalIO_pins(an.components),
           lines |-> [i \in 1..Len(an.components) |->
                        ComponentLine(an.components[i], scaling)]],
        text_main |->
          [ona |-> OnaBlock(cell.name, an),
           name |-> cell.name,
           electricalIO_pins_subckt |-> electricalIO_pins(comps0),
           opticalIO_pins |-> opticalIO_pins(an.components),
           sch_r |-> IF Len(DCsources(comps0)) > 0 THEN 270 ELSE 0,
           DCsources |-> DCsources(comps0)],
        detector_nets |-> an.detector_nets,
        count |-> Len(an.detector_nets)]

\* spice_netlist_export under Python py
spice_netlist_export(cell, py) ==
  LET Export(comps0) ==
        CHOOSE r \in {ExportWith(cell, py, scaling, comps0, an) :
                        scaling \in {Lumerical_schematic_scaling(comps0)},
                        an \in {get_LumericalINTERCONNECT_analyzers(cell, comps0)}} : TRUE
  IN  CHOOSE r \in {Export(comps0) : comps0 \in {identify_nets(cell).components}} : TRUE

---------------------------------------------------------------------------
(* Layouts for the export of the netlist.  Coordinates are microns.  The
   DevRec boxes of the cells are centred on the cells' origins, so that the
   centre of a component is where its instance is placed. *)

MaxPins == 3       \* a cell has 1..MaxPins PinRec shapes
MaxPlaced == 3     \* 1..MaxPlaced components are placed for the scaling
MaxLum == 3        \* the Lumerical iterator visits 0..MaxLum shapes

s_top == <<116, 111, 112>>     \* "top"
s_aa == <<97, 97>>             \* "aa"
s_x == <<120>>                 \* "x"

CentredBox == [p1 |-> P(-2, -1), p2 |-> P(2, 1)]

ECellWg ==
  [basic_name |-> s_wg, library |-> "Design kits/ebeam", box |-> CentredBox,
   pinrec |-> <<PathPin(s_opt2, P(2, 0), P(1, 0)), PathPin(s_opt1, P(-2, 0), P(-1, 0))>>,
   fbrtgt |-> <<>>]

ECellGC ==
  [basic_name |-> s_GC_1, library |-> "Design kits/ebeam", box |-> CentredBox,
   pinrec |-> <<PathPin(s_opt1, P(2, 0), P(1, 0))>>,
   fbrtgt |-> <<P(-1, 0)>>]

\* Where the i-th PinRec shape of a cell is drawn, and the direction of the
\* pin if it is a path
TypePinAt(i) ==
  CASE i = 1 -> [center |-> P(2, 0), dir |-> P(1, 0)]
    [] i = 2 -> [center |-> P(-2, 0), dir |-> P(-1, 0)]
    [] i = 3 -> [center |-> P(0, 1), dir |-> P(0, 1)]
    [] OTHER -> [center |-> P(0, -1), dir |-> P(0, -1)]

\* The name of the i-th of n PinRec shapes: "b", "c", "a" for three
TypePinName(i, n) == <<97 + (i % n)>>

\* A cell with a PinRec path (an optical pin) or box (an electrical pin) for
\* each of kinds, and io fibre targets
TypeCell(kinds, basic_name, io) ==
  [basic_name |-> basic_name, library |-> "None", box |-> CentredBox,
   pinrec |-> [i \in 1..Len(kinds) |->
                 IF kinds[i] = "path"
                 THEN PathPin(TypePinName(i, Len(kinds)), TypePinAt(i).center, TypePinAt(i).dir)
                 ELSE BoxPin(TypePinName(i, Len(kinds)), TypePinAt(i).center)],
   fbrtgt |-> [i \in 1..io |-> P(-1, 0)]]

TypeCells ==
  {TypeCell(kinds, basic_name, io) :
     kinds \in UNION {[1..n -> {"path", "box"}] : n \in 1..MaxPins},
     basic_name \in {s_aa, s_x}, io \in {0, 1}}

\* The DevRec box of an instance of cell placed by trans
Placed(cell, trans) ==
  [kind |-> "box", flat |-> FALSE, cell |-> cell, box |-> cell.box, trans |-> trans]

LaserParams(ignoreOpticalIOs) ==
  [wavelength_start |-> 1500, wavelength_stop |-> 1600, npoints |-> 2000,
   orthogonal_identifier |-> 1, ignoreOpticalIOs |-> ignoreOpticalIOs]

DetectorBox(box, number) ==
  [basic_name |-> LumericalDetector, is_box |-> TRUE, box |-> box,
   params |-> [number |-> number]]

LaserBox(box, ignoreOpticalIOs) ==
  [basic_name |-> LumericalLaser, is_box |-> TRUE, box |-> box,
   params |-> LaserParams(ignoreOpticalIOs)]

Box(x1, y1, x2, y2) == [p1 |-> P(x1, y1), p2 |-> P(x2, y2)]

\* Pin types: a cell of every mix of pin types at the origin, a waveguide
\* abutting it, and no analyzer, a detector or a laser on its fibre target
TypeLayouts ==
  {[name |-> s_top,
    shapes |-> <<Placed(c, Identity), Placed(ECellWg, Trans(0, FALSE, P(4, 0)))>>,
    lum |-> l] :
     c \in TypeCells,
     l \in {<<>>, <<DetectorBox(Box(-2, -1, 0, 1), 1)>>, <<LaserBox(Box(-2, -1, 0, 1), FALSE)>>}}

Orientations == {Trans(a, m, P(0, 0)) : a \in Angles, m \in BOOLEAN}

\* Orientations: a cell in each orientation at the origin, alone or with a
\* waveguide in each orientation beside it, without or with a laser
OrientationLayouts ==
  {[name |-> s_top, shapes |-> s, lum |-> l] :
     s \in {<<Placed(c, t)>> : c \in {ECellWg, ECellGC}, t \in Orientations}
           \cup {<<Placed(c, t), Placed(ECellWg, [u EXCEPT !.disp = P(4, 0)])>> :
                   c \in {ECellWg, ECellGC}, t \in Orientations, u \in Orientations},
     l \in {<<>>, <<LaserBox(Box(-6, -6, 6, 6), TRUE)>>}}

\* Where components are placed for the scaling: next to each other, and
\* millimetres apart
ScalePositions ==
  {P(0, 0), P(4, 0), P(-4, 0), P(0, 3), P(13000, 0), P(26000, 0)}

ScaleLayouts ==
  {l \in UNION {[name : {s_top},
                 shapes : [1..n -> {Placed(ECellWg, Trans(0, FALSE, p)) : p \in ScalePositions}],
                 lum : {<<>>}] : n \in 1..MaxPlaced} :
     \A i, j \in 1..Len(l.shapes) :
       WholeDistance(l.shapes[i].trans.disp, l.shapes[j].trans.disp)}

\* What the Lumerical iterator visits: detectors on the fibre target of the
\* first grating coupler, of the second, of both or of none, a detector
\* polygon, and a laser on the fibre target of the third
LumShapes ==
  {DetectorBox(Box(-6, -1, -4, 1), 1), DetectorBox(Box(-6, -1, -4, 1), 2),
   DetectorBox(Box(-2, 2, 0, 4), 1), DetectorBox(Box(-6, -1, 0, 4), 1),
   DetectorBox(Box(4, 4, 6, 6), 1),
   [DetectorBox(Box(-2, 2, 0, 4), 1) EXCEPT !.is_box = FALSE],
   LaserBox(Box(-2, -4, 0, -2), TRUE)}

\* Analyzers: three grating couplers, and 0..MaxLum Lumerical shapes
AnalyzerLayouts ==
  UNION {[name : {s_top},
          shapes : {<<Placed(ECellGC, Trans(0, FALSE, P(-4, 0))),
                      Placed(ECellGC, Trans(0, FALSE, P(0, 3))),
                      Placed(ECellGC, Trans(0, FALSE, P(0, -3)))>>},
          lum : [1..n -> LumShapes]] : n \in 0..MaxLum}

ExportLayouts == TypeLayouts \cup OrientationLayouts \cup ScaleLayouts \cup AnalyzerLayouts

\* The Python the layout editor is built with
PythonVersions == {2, 3}

InitExport ==
  /\ layout \in ExportLayouts
  /\ python \in PythonVersions
  /\ components = NoCall
  /\ nets = NoCall
  /\ out = NoCall
  /\ pts = <<>>
  /\ ret = NoCall
  /\ NoSimulator

\* cell.get_LumericalINTERCONNECT_analyzers(components), with the components
\* of identify_nets as spice_netlist_export passes them
GetLumericalINTERCONNECTAnalyzers ==
  /\ nets.op = "none"
  /\ LET an == get_LumericalINTERCONNECT_analyzers(layout, identify_nets(layout).components)
     IN  /\ nets' = [op |-> "get_LumericalINTERCONNECT_analyzers",
                     raised |-> an.raised, laser_net |-> an.laser_net,
                     detector_nets |-> an.detector_nets,
                     ignoreOpticalIOs |-> an.ignoreOpticalIOs]
         /\ components' = [op |-> "get_LumericalINTERCONNECT_analyzers",
                           val |-> an.components]
  /\ UNCHANGED <<layout, python, out, pathVars, intcVars>>

\* cell.spice_netlist_export()
SpiceNetlistExport ==
  /\ out.op = "none"
  /\ out' = spice_netlist_export(layout, python)
  /\ UNCHANGED <<layout, python, components, nets, pathVars, intcVars>>

NextExport == GetLumericalINTERCONNECTAnalyzers \/ SpiceNetlistExport

SpecExport == InitExport /\ [][NextExport]_vars

---------------------------------------------------------------------------
(* run_INTC: the handle of the Lumerical INTERCONNECT session *)

MaxSessions == 3   \* lumapi.open is called at most MaxSessions times

\* The text of the exception run_INTC raises when the last test fails
CantRun == "Can't run Lumerical INTERCONNECT via Python integration."

\* lumapi.evalScript(h, "?'Python integration test.';") returns when the
\* session of handle h answers, and raises otherwise
Responds(h, run) == h \in run

\* lumapi.open('interconnect') after n sessions: the handle of a new session
lumapi_open(n) == n + 1

\* A variant that opens a session whatever the handle is
NeedsNewSessionAlways(intc, run) == TRUE

\* Whether the call opens a session: INTC is empty, or the session it names
\* does not answer the integration test
NeedsNewSession(intc, run) == intc = NoHandle \/ ~Responds(intc, run)

\* A variant that returns without the last test
CheckAgainSkipped(h, run) == [outcome |-> "returned"]

\* The last test: the call returns when the session answers and raises when
\* it does not
CheckAgain(h, run) ==
  IF Responds(h, run)
  THEN [outcome |-> "returned"]
  ELSE [outcome |-> "raised", msg |-> CantRun]

\* The warning box of pya.MessageBox and the return after it; outside KLayout
\* the name pya is not bound
WarnAndReturn(klayout) ==
  IF klayout
  THEN [outcome |-> "warned"]
  ELSE [outcome |-> "raised", msg |-> "NameError: name 'pya' is not defined"]

\* run_INTC() with load_lumapi.LUMAPI = module, the global INTC = intc, the
\* answering sessions run and n sessions opened so far.  avail: whether a
\* reload of load_lumapi finds the bridge; answers: whether the session the
\* call ends with answers the last test (a session just opened may not, and
\* the user may close a session at any time).  Yields the module attribute,
\* the global, the sessions and what the call did.
run_INTC(module, intc, run, n, avail, answers, klayout) ==
  LET lumapi == module
      reloads == ~lumapi
      module1 == IF reloads THEN avail ELSE module
  IN  IF ~lumapi
      THEN [LUMAPI |-> module1, INTC |-> intc, running |-> run, opened |-> n,
            reloads |-> reloads, opens |-> 0, answered |-> FALSE,
            result |-> WarnAndReturn(klayout)]
      ELSE LET opens == NeedsNewSession(intc, run)
               h == IF opens THEN lumapi_open(n) ELSE intc
               run1 == IF answers /\ (opens \/ Responds(h, run))
                       THEN run \cup {h}
                       ELSE run \ {h}
           IN  [LUMAPI |-> module1, INTC |-> h, running |-> run1,
                opened |-> IF opens THEN n + 1 ELSE n,
                reloads |-> reloads, opens |-> IF opens THEN 1 ELSE 0,
                answered |-> Responds(h, run1),
                result |-> CheckAgain(h, run1)]

InitINTC ==
  /\ LUMAPI \in BOOLEAN
  /\ in_klayout \in BOOLEAN
  /\ INTC = NoHandle
  /\ running = {}
  /\ opened = 0
  /\ call = NoCall
  /\ pts = <<>>
  /\ ret = NoCall
  /\ NoLayout

\* run_INTC()
RunINTC ==
  /\ opened < MaxSessions
  /\ \E avail, answers \in BOOLEAN :
       LET r == run_INTC(LUMAPI, INTC, running, opened, avail, answers, in_klayout)
       IN  /\ LUMAPI' = r.LUMAPI
           /\ INTC' = r.INTC
           /\ running' = r.running
           /\ opened' = r.opened
           /\ call' = [op |-> "run_INTC", lumapi |-> LUMAPI, INTC |-> INTC,
                       responsive |-> Responds(INTC, running),
                       reloads |-> r.reloads, opens |-> r.opens,
                       answered |-> r.answered, result |-> r.result]
  /\ UNCHANGED <<in_klayout, pathVars, layoutVars>>

\* The user closes a simulator
CloseSimulator ==
  /\ \E h \in running : running' = running \ {h}
  /\ UNCHANGED <<LUMAPI, INTC, opened, in_klayout, call, pathVars, layoutVars>>

\* A new interpreter imports interconnect.py: the name INTC is not bound yet
\* and is set to None, load_lumapi is imported anew; the simulators the
\* earlier interpreter opened are separate processes and go on running
ImportModule ==
  /\ call # NoCall
  /\ INTC' = NoHandle
  /\ LUMAPI' \in BOOLEAN
  /\ in_klayout' \in BOOLEAN
  /\ call' = NoCall
  /\ UNCHANGED <<running, opened, pathVars, layoutVars>>

NextINTC == RunINTC \/ CloseSimulator \/ ImportModule

SpecINTC == InitINTC /\ [][NextINTC]_vars

---------------------------------------------------------------------------
(* Properties of the path extensions *)

\* The segment between two points is horizontal or vertical
AxisParallel(p, q) == p.x = q.x \/ p.y = q.y

\* C8: is_manhattan returns true iff the first segment and the last segment
\* of the path are each horizontal or vertical, whatever the points between
\* them, also when the first point equals the last or a point in between
\* equals the last.
C8_IsManhattanFirstLast ==
  ret.op = "is_manhattan" =>
    LET p == ret.on
        n == Len(p)
    IN  ret.val <=> (AxisParallel(p[1], p[2]) /\ AxisParallel(p[n - 1], p[n]))

\* C9: radius_check(radius) is true iff the first and the last segment are
\* at least radius long and every segment between them is at least 2*radius
\* long; the single segment of a two-point path needs length >= radius only.
C9_RadiusCheck ==
  ret.op = "radius_check" =>
    LET p == ret.on
        n == Len(p)
        r == ret.radius
        Long(i, len) == Dist2(p[i], p[i + 1]) >= len * len
    IN  ret.val <=> /\ Long(1, r)
                    /\ Long(n - 1, r)
                    /\ \A i \in 2..(n - 2) : Long(i, 2 * r)

\* A call where only a middle segment is too short: longer than radius, as
\* the end segments are, but shorter than 2*radius
C9_Witness ==
  /\ ret.op = "radius_check"
  /\ Len(ret.on) >= 4
  /\ ret.radius >= 1
  /\ ~ret.val
  /\ \A i \in 1..(Len(ret.on) - 1) :
       Dist2(ret.on[i], ret.on[i + 1]) >= ret.radius * ret.radius

\* The pin qualifies for the endpoint at pt of an end segment of direction
\* ang: optical, facing the segment, no other such pin closer, within d_min
Qualifies(pin, pins, ang, pt, d_min) ==
  /\ pin.type = OPTICAL
  /\ ((ang - pin.rotation) % 360) = 180
  /\ \A k \in 1..Len(pins) :
       (pins[k].type = OPTICAL /\ ((ang - pins[k].rotation) % 360) = 180)
         => Dist2(pin.center, pt) <= Dist2(pins[k].center, pt)
  /\ Dist2(pin.center, pt) <= d_min * d_min

\* From the points before to the points after, endpoint e (next to corner c)
\* has not moved, or it is on the centre of a pin that qualifies for it
OnlyOntoPin(before, after, e, c, pins, d_min) ==
  after[e] # before[e] =>
    \E k \in 1..Len(pins) :
      /\ Qualifies(pins[k], pins, AngleVector(Sub(before[c], before[e])),
                   before[e], d_min)
      /\ after[e] = pins[k].center

PinFound(before, e, c, pins, d_min) ==
  \E k \in 1..Len(pins) :
    Qualifies(pins[k], pins, AngleVector(Sub(before[c], before[e])), before[e], d_min)

\* Endpoint e of the path snap leaves is on the centre of such a pin
OnFoundPin(before, after, e, c, pins, d_min) ==
  \E k \in 1..Len(pins) :
    /\ Qualifies(pins[k], pins, AngleVector(Sub(before[c], before[e])), before[e], d_min)
    /\ after[e] = pins[k].center

\* A horizontal segment is still horizontal, a vertical one still vertical
\* (a segment of length zero has neither orientation)
KeepsOrientation(before, after, e, c) ==
  /\ (before[e].y = before[c].y /\ before[e].x # before[c].x) => after[e].y = after[c].y
  /\ (before[e].x = before[c].x /\ before[e].y # before[c].y) => after[e].x = after[c].x

\* C11: when snap has modified the path, every endpoint for which its step
\* found a qualifying pin is on that pin's centre, and the end segment at
\* that endpoint has kept its orientation, in paths of any number of points,
\* two-point paths with both endpoints snapped included.
C11_SnappedEndsOnPinsKeepOrientation ==
  (ret.op = "snap" /\ pts # ret.on) =>
    LET n == Len(ret.on)
    IN  /\ PinFound(ret.on, 1, 2, ret.pins, ret.d_min) =>
             /\ OnFoundPin(ret.on, pts, 1, 2, ret.pins, ret.d_min)
             /\ KeepsOrientation(ret.on, pts, 1, 2)
        /\ PinFound(ret.mid, n, n - 1, ret.pins, ret.d_min) =>
             /\ OnFoundPin(ret.mid, pts, n, n - 1, ret.pins, ret.d_min)
             /\ KeepsOrientation(ret.on, pts, n, n - 1)

\* Index of the first occurrence of point q in the point list p
FirstIndex(p, q) == CHOOSE i \in 1..Len(p) : p[i] = q /\ \A j \in 1..(i - 1) : p[j] # q

---------------------------------------------------------------------------
(* Properties of the extraction of components and nets *)

\* The pin at place a of the component at place i, as nets name it
PinRef(i, a) == [c |-> components.val[i].idx, p |-> a]

\* identify_nets has made a net of the two pins
HasNet(r1, r2) ==
  \E k \in 1..Len(nets.val) : nets.val[k].pins \in {<<r1, r2>>, <<r2, r1>>}

\* C1: identify_nets makes a net of two pins iff they are pins of two
\* different components whose outline bounding boxes overlap or touch, the
\* pins face each other ((p1.rotation - p2.rotation) mod 360 = 180) and their
\* centres are equal; no other net is made, and none is made twice.
C1_NetIffFacingCoincidentPins ==
  nets.op = "identify_nets" =>
    /\ \A i, j \in 1..Len(components.val) :
         \A a \in 1..Len(components.val[i].pins), b \in 1..Len(components.val[j].pins) :
           LET c1 == components.val[i]
               c2 == components.val[j]
               p1 == c1.pins[a]
               p2 == c2.pins[b]
           IN  HasNet(PinRef(i, a), PinRef(j, b)) <=>
                 /\ i # j
                 /\ \/ BoxOverlaps(c1.polygon, c2.polygon)
                    \/ BoxTouches(c1.polygon, c2.polygon)
                 /\ ((p1.rotation - p2.rotation) % 360) = 180
                 /\ p1.center = p2.center
    /\ \A k \in 1..Len(nets.val) :
         /\ nets.val[k].idx = k - 1
         /\ \E i, j \in 1..Len(components.val) :
              \E a \in 1..Len(components.val[i].pins), b \in 1..Len(components.val[j].pins) :
                nets.val[k].pins = <<PinRef(i, a), PinRef(j, b)>>
         /\ \A m \in 1..Len(nets.val) :
              nets.val[m].pins \in {nets.val[k].pins, <<nets.val[k].pins[2], nets.val[k].pins[1]>>}
                => m = k

\* A net between two components whose boxes touch without overlapping
C1_Witness ==
  /\ nets.op = "identify_nets"
  /\ \E k \in 1..Len(nets.val) :
       LET c1 == components.val[nets.val[k].pins[1].c + 1]
           c2 == components.val[nets.val[k].pins[2].c + 1]
       IN  /\ BoxTouches(c1.polygon, c2.polygon)
           /\ ~BoxOverlaps(c1.polygon, c2.polygon)

Bijections(n) ==
  {f \in [1..n -> 1..n] : \A x, y \in 1..n : f[x] = f[y] => x = y}

\* C6: in every hierarchical component find_components returns, the pins
\* are in ascending order of their names, each pin's component is that
\* component, and the pins are the pins of the component's cell, each moved
\* by the instance's transformation into the coordinates of the top cell.
C6_ComponentPinsSortedAndTransformed ==
  components.op # "none" =>
    \A i \in 1..Len(components.val) :
      LET c == components.val[i]
      IN  ~c.flat =>
            LET local == find_pins(c.cell)
                n     == Len(c.pins)
            IN  /\ \A a, b \in 1..n :
                     a < b => ~StrLess(c.pins[b].pin_name, c.pins[a].pin_name)
                /\ \A a \in 1..n : c.pins[a].component = c.idx
                /\ n = Len(local)
                /\ \E f \in Bijections(n) :
                     \A a \in 1..n :
                       /\ c.pins[a].pin_name = local[f[a]].pin_name
                       /\ c.pins[a].type = local[f[a]].type
                       /\ c.pins[a].center = TransPoint(c.trans, local[f[a]].center)

\* A rotated or displaced component whose cell lists its pins out of order
C6_Witness ==
  /\ components.op # "none"
  /\ \E i \in 1..Len(components.val) :
       LET c == components.val[i]
       IN  /\ ~c.flat
           /\ c.trans # Identity
           /\ Len(c.pins) >= 2
           /\ StrLess(find_pins(c.cell)[2].pin_name, find_pins(c.cell)[1].pin_name)

---------------------------------------------------------------------------
(* Properties of the export of the netlist *)

Returned == out.op = "spice_netlist_export" /\ out.status = "returned"

\* Electrical pins come first, then optical IO pins, then optical pins
TypeRank(type) ==
  CASE type = ELECTRICAL -> 1
    [] type = OPTICALIO  -> 2
    [] type = OPTICAL    -> 3

\* The place in the line that this order gives to the name of pin a of c
NamePlace(c, a) ==
  Cardinality({b \in 1..Len(c.pins) :
                 \/ TypeRank(c.pins[b].type) < TypeRank(c.pins[a].type)
                 \/ (c.pins[b].type = c.pins[a].type /\ b <= a)})

\* Two net names are the same: the same prefix and the same parts
SameName(t, u) == t.kind = u.kind /\ DOMAIN t = DOMAIN u /\ t = u

\* C2: in the line spice_netlist_export writes for a component, the net
\* names of the electrical pins come first, then those of the optical IO
\* pins, then those of the optical pins, and within a type the names are in
\* the order of the component's pin list, whatever the order of the types in
\* that list.
C2_NetNamesOrderedByPinType ==
  Returned =>
    \A i \in 1..Len(out.components) :
      LET c    == out.components[i]
          line == out.text_subckt.lines[i]
      IN  /\ Len(line.nets_str) = Len(c.pins)
          /\ \A a \in 1..Len(c.pins) :
               SameName(line.nets_str[NamePlace(c, a)], NetName(c, c.pins[a]))

\* A line for a component with pins of all three types, whose pin list has
\* an optical pin with a net before an electrical pin
C2_Witness ==
  /\ Returned
  /\ \E i \in 1..Len(out.components) :
       LET c == out.components[i]
       IN  /\ {c.pins[a].type : a \in 1..Len(c.pins)} = PIN_TYPES
           /\ Len(out.text_subckt.lines[i].nets_str) >= 3
           /\ \E a, b \in 1..Len(c.pins) :
                /\ a < b
                /\ c.pins[a].type = OPTICAL /\ c.pins[a].net # NET_DISCONNECTED
                /\ c.pins[b].type = ELECTRICAL

C4_TranslationKeepsMirrorAndIsInjective ==
  Returned =>
    \A i, j \in 1..Len(out.components) :
      LET ci == out.components[i]
          cj == out.components[j]
          li == out.text_subckt.lines[i]
          lj == out.text_subckt.lines[j]
      IN  /\ (li.flip = s_sch_f_true) <=> ci.trans.mirror
          /\ <<ci.trans.angle, ci.trans.mirror>> # <<cj.trans.angle, cj.trans.mirror>>
               => <<li.rotate, li.flip>> # <<lj.rotate, lj.flip>>

\* The non-zero distances between the centres of two components
CentreDistances(comps) ==
  {Distance(comps[i].Dcenter, comps[j].Dcenter) : i, j \in 1..Len(comps)} \ {0}

SetMin(S) == CHOOSE m \in S : \A x \in S : m <= x

SetMax(S) == CHOOSE m \in S : \A x \in S : m >= x

\* Two fractions (n * 1e-4) / d are the same number
SameFraction(a, b) == a.n * b.d = b.n * a.d

\* C5: with dmin and dmax the smallest and the largest non-zero distance
\* between the centres of two components, the scaling is 0.0006 / dmin when
\* dmax * 0.0006 / dmin <= 0.05, and 0.05 / dmax otherwise.
C5_ScalingFromNearestNeighbour ==
  Returned =>
    LET D == CentreDistances(out.components)
    IN  D # {} =>
          LET dmin == SetMin(D)
              dmax == SetMax(D)
          IN  SameFraction(out.scaling,
                           IF dmax * 6 <= 500 * dmin
                           THEN [n |-> 6, d |-> dmin]
                           ELSE [n |-> 500, d |-> dmax])

\* The analyzer boxes the Lumerical iterator visits, by place
AnalyzerBoxes ==
  {k \in 1..Len(layout.lum) :
     /\ layout.lum[k].is_box
     /\ layout.lum[k].basic_name \in {LumericalDetector, LumericalLaser}}

\* The components with an optical IO pin inside the k-th Lumerical shape
IOComponentsIn(comps, k) ==
  {i \in 1..Len(comps) :
     \E a \in 1..Len(comps[i].pins) :
       /\ comps[i].pins[a].type = OPTICALIO
       /\ BoxContains(layout.lum[k].box, comps[i].pins[a].center)}

\* The detector boxes that contain the optical IO pin of exactly one component
CountedDetectors(comps) ==
  {k \in AnalyzerBoxes :
     /\ layout.lum[k].basic_name = LumericalDetector
     /\ Cardinality(IOComponentsIn(comps, k)) = 1}

EndsWith(str, suffix) ==
  /\ Len(str) >= Len(suffix)
  /\ SubSeq(str, Len(str) - Len(suffix) + 1, Len(str)) = suffix

\* The net is the one made for the k-th Lumerical shape: its name ends with
\* "_detector" and the count of the analyzer boxes visited so far
IsNetOf(net, k) ==
  EndsWith(net.idx, s_detector \o Str(Cardinality({j \in AnalyzerBoxes : j <= k})))

\* The nets are those of the counted detectors, one each, in ascending order
\* of the detectors' numbers
DetectorNetsInOrder(dn, comps) ==
  /\ Len(dn) = Cardinality(CountedDetectors(comps))
  /\ \A k \in CountedDetectors(comps) : \E i \in 1..Len(dn) : IsNetOf(dn[i], k)
  /\ \A i, j \in 1..Len(dn) : \A k, m \in CountedDetectors(comps) :
       (i < j /\ IsNetOf(dn[i], k) /\ IsNetOf(dn[j], m))
         => layout.lum[k].params.number <= layout.lum[m].params.number

\* C7: get_LumericalINTERCONNECT_analyzers returns the detector nets in
\* ascending order of the detectors' numbers, whatever the order the shapes
\* are visited in; the count spice_netlist_export returns is the number of
\* detector boxes that contain the optical IO pin of exactly one component;
\* the .ona block lists input(i) for i = 1..count in that order.
C7_DetectorsOrderedAndCounted ==
  /\ (nets.op = "get_LumericalINTERCONNECT_analyzers" /\ ~nets.raised)
       => DetectorNetsInOrder(nets.detector_nets, components.val)
  /\ Returned =>
       /\ DetectorNetsInOrder(out.detector_nets, out.components)
       /\ out.count = Cardinality(CountedDetectors(out.components))
       /\ out.text_main.ona # None =>
            out.text_main.ona.input =
              [i \in 1..out.count |->
                 [i |-> i, name |-> layout.name, net |-> out.detector_nets[i].idx]]

\* An export with a laser and two counted detectors, the one visited first
\* having the greater number
C7_Witness ==
  /\ Returned
  /\ nets.op = "get_LumericalINTERCONNECT_analyzers"
  /\ out.text_main.ona # None
  /\ out.count = 2
  /\ \E k, m \in CountedDetectors(out.components) :
       k < m /\ layout.lum[k].params.number > layout.lum[m].params.number

---------------------------------------------------------------------------
(* Properties of run_INTC *)

\* The last call went on to the session: it ended in the last test of
\* run_INTC, returning or raising that test's exception
WentOnToSession ==
  \/ call.result.outcome = "returned"
  \/ call.result.outcome = "raised" /\ call.result.msg = CantRun

\* C13: when lumapi is loaded, a call of run_INTC that returns normally
\* leaves the global INTC bound to a session that answered the integration
\* test, and a call whose session does not answer even after it was opened
\* or opened again raises "Can't run Lumerical INTERCONNECT via Python
\* integration." instead of returning.
C13_ReturnsOnlyWithAnsweringSession ==
  (call.op = "run_INTC" /\ call.lumapi) =>
    /\ call.result.outcome \in {"returned", "raised"}
    /\ call.result.outcome = "returned" => (INTC # NoHandle /\ call.answered)
    /\ ~call.answered =>
         (call.result.outcome = "raised" /\ call.result.msg = CantRun)

\* A call found the session of INTC silent, opened a new one, and raised
\* because the new one did not answer either
C13_Witness ==
  /\ call.op = "run_INTC"
  /\ call.lumapi
  /\ call.INTC # NoHandle
  /\ ~call.responsive
  /\ call.opens = 1
  /\ INTC # call.INTC
  /\ call.result.outcome = "raised"
  /\ call.result.msg = CantRun

\* C14: over any sequence of calls of run_INTC and simulators closed by the
\* user, a call opens a session only if INTC is empty or the session it names
\* fails the integration test; a call made while that session answers opens
\* none and leaves INTC as it is; and no call opens more than one session.
C14_OpensOnlyWhenNoAnsweringSession ==
  [][ /\ opened' \in {opened, opened + 1}
      /\ opened' # opened => (INTC = NoHandle \/ ~Responds(INTC, running))
      /\ (call'.op = "run_INTC" /\ INTC # NoHandle /\ Responds(INTC, running))
           => (opened' = opened /\ INTC' = INTC) ]_vars

\* After a session was closed and another opened in its place, a call found
\* the session of INTC answering, opened none and kept INTC
C14_Witness ==
  /\ call.op = "run_INTC"
  /\ opened >= 2
  /\ call.INTC # NoHandle
  /\ call.responsive
  /\ call.opens = 0
  /\ INTC = call.INTC
  /\ call.result.outcome = "returned"

\* C15: a call of run_INTC that finds lumapi not loaded reloads load_lumapi;
\* if the reload makes lumapi available the call goes on to open or check
\* the session, and the warning box and the early return happen only when
\* lumapi is still unavailable after the reload.
C15_ReloadedBridgeIsUsed ==
  (call.op = "run_INTC" /\ ~call.lumapi) =>
    /\ call.reloads
    /\ LUMAPI => WentOnToSession
    /\ call.result.outcome = "warned" => ~LUMAPI

=============================================================================
